---------------------------- MODULE Spec2Model ----------------------------
(***************************************************************************)
(* A model of samtools/dict.c (pysam build): dict_main and write_dict.      *)
(*                                                                         *)
(* Text is modelled as sequences of one-character strings, sequence bytes  *)
(* as integers 0..255.  The output sink is the sequence of lines written   *)
(* so far; a line is the sequence of characters fprintf produced for it,   *)
(* the terminating newline included.                                       *)
(*                                                                         *)
(* Library calls (gzopen, fopen, hts_md5_init, kseq_read, realpath) are    *)
(* modelled at their documented interface: where the library can fail,     *)
(* the model chooses the outcome nondeterministically.                     *)
(***************************************************************************)
EXTENDS Integers, Sequences, FiniteSets, TLC

VARIABLES
    argv,       \* the command line: options given, positional argument, isatty(stdin)
    input,      \* the FASTA records the input stream holds, in file order
    pc,         \* position of control in dict_main / write_dict
    args,       \* args_t (dict.c:39-45)
    argsAlloc,  \* the calloc'ed args_t is still allocated
    fn,         \* write_dict's fn parameter
    fp,         \* gzFile: "null" | "open" | "closed"
    out,        \* FILE *out: "null" | "stdout" | "file"
    outOpen,    \* the file the writer fopen'ed is open
    stdoutClosed, \* fclose was called on samtools_stdout
    md5,        \* hts_md5_context
    seq,        \* kseq_t: [name, s (the seq.s buffer), l (seq.l)]
    l,          \* the last return value of kseq_read
    nread,      \* records kseq_read has returned so far
    i, k,       \* the loop indices of the compaction loop
    outbuf,     \* lines written to out
    errbuf,     \* messages written to samtools_stderr
    status      \* exit status: -1 while running

vars == <<argv, input, pc, args, argsAlloc, fn, fp, out, outOpen, stdoutClosed,
          md5, seq, l, nread, i, k, outbuf, errbuf, status>>

-----------------------------------------------------------------------------
(* Bounds *)

\* records per input in the formatting inputs (all option combinations)
FmtMaxRecords == 1
\* records per input in the ordering / digest inputs
OrdMaxRecords == 2
\* raw sequence length in the normalisation inputs
MaxSeqLen == 3

-----------------------------------------------------------------------------
(* Characters and strings *)

NULL == <<"<NULL>">>

TAB == "\t"
NL == "\n"

S_chr == <<"c", "h", "r">>
S_M == <<"M">>
S_MT == <<"M", "T">>
S_dash == <<"-">>
S_SQ == <<"@", "S", "Q">>
S_HD == <<"@", "H", "D">>
S_SN == <<"S", "N", ":">>
S_LN == <<"L", "N", ":">>
S_M5 == <<"M", "5", ":">>
S_AN == <<"A", "N", ":">>
S_UR == <<"U", "R", ":">>
S_AS == <<"A", "S", ":">>
S_SP == <<"S", "P", ":">>
S_file == <<"f", "i", "l", "e", ":", "/", "/">>
S_null == <<"(", "n", "u", "l", "l", ")">>
S_comma_chrMT_MT == <<",", "c", "h", "r", "M", "T", ",", "M", "T">>
S_comma_chrM_M == <<",", "c", "h", "r", "M", ",", "M">>

\* "@HD\tVN:1.0\tSO:unsorted\n" (dict.c:74)
HeaderLine ==
    <<"@", "H", "D", TAB, "V", "N", ":", "1", ".", "0", TAB,
      "S", "O", ":", "u", "n", "s", "o", "r", "t", "e", "d", NL>>

\* the bounds of the retained byte range, '!' and '~' (dict.c:77)
CH_BANG == 33
CH_TILDE == 126

DigitChar == <<"0", "1", "2", "3", "4", "5", "6", "7", "8", "9">>
HexChar == <<"0", "1", "2", "3", "4", "5", "6", "7", "8", "9",
             "a", "b", "c", "d", "e", "f">>

\* printf's %d for a non-negative int
RECURSIVE FmtInt(_)
FmtInt(n) ==
    IF n < 10 THEN <<DigitChar[n + 1]>>
    ELSE FmtInt(n \div 10) \o <<DigitChar[(n % 10) + 1]>>

\* strncmp(name, "chr", 3) == 0
StartsWithChr(name) ==
    /\ Len(name) >= 3
    /\ SubSeq(name, 1, 3) = S_chr

\* strcmp(a, b) == 0
StrEq(a, b) == a = b

\* the value of a plain char holding byte b (signed char; an unsigned char
\* build gives the same outcome of the range test)
CharVal(b) == IF b >= 128 THEN b - 256 ELSE b

\* mutant: the range test with strict comparisons
RetainedExclusive(b) == CharVal(b) > CH_BANG /\ CharVal(b) < CH_TILDE

\* seq->seq.s[i] >= '!' && seq->seq.s[i] <= '~'
Retained(b) == CharVal(b) >= CH_BANG /\ CharVal(b) <= CH_TILDE

\* toupper in the C locale
ToUpper(b) == IF b \in 97..122 THEN b - 32 ELSE b


-----------------------------------------------------------------------------
(* The MD5 context.  MD5 itself is idealised as a collision-free function  *)
(* of the context's initial state and of the bytes fed to it; its hex      *)
(* rendering spells out that pair.  hts_md5_final wipes the context, so a  *)
(* context that is not reset afterwards no longer starts from the standard *)
(* initial state.                                                          *)

Md5Null == [alloc |-> FALSE, iv |-> "none", buf |-> <<>>]

\* hts_md5_reset
Md5Reset(ctx) == [ctx EXCEPT !.iv = "std", !.buf = <<>>]

\* hts_md5_update(ctx, data, len)
Md5Update(ctx, data, len) == [ctx EXCEPT !.buf = @ \o SubSeq(data, 1, len)]

\* the digest hts_md5_final stores
Md5Digest(ctx) == [iv |-> ctx.iv, msg |-> ctx.buf]

\* the context hts_md5_final leaves behind
Md5Wiped(ctx) == [ctx EXCEPT !.iv = "zero", !.buf = <<>>]

RECURSIVE HexBytes(_)
HexBytes(bs) ==
    IF bs = <<>> THEN <<>>
    ELSE <<HexChar[(bs[1] \div 16) + 1], HexChar[(bs[1] % 16) + 1]>>
         \o HexBytes(Tail(bs))

\* hts_md5_hex
Md5Hex(digest) ==
    (IF digest.iv = "std" THEN <<"d">> ELSE <<"0">>) \o HexBytes(digest.msg)

-----------------------------------------------------------------------------
(* The inputs *)

FileName == <<"r", ".", "f", "a">>
OutName == <<"o", ".", "d">>
UriOpt == <<"x", ":", "y">>
AssemblyOpt == <<"G", "3", "8">>
SpeciesOpt == <<"H", "s">>

\* realpath(fn, NULL) when it succeeds
AbsPath(f) == <<"/", "w", "/">> \o f

Names ==
    { <<"c", "h", "r", "M">>, <<"M">>, <<"M", "T">>, <<"c", "h", "r", "M", "T">>,
      <<"1">>, <<"c", "h", "r", "1">>, <<"c", "h", "r", "c", "h", "r", "M">>,
      <<"c", "h">>, <<"c", "h", "r">>, <<"M", "T", "x">> }

OrdNames == { <<"c", "h", "r", "1">>, <<"c", "h", "r", "2">> }

\* "aA", "A\na", "c", ""
OrdSeqs == { <<97, 65>>, <<65, 10, 97>>, <<99>>, <<>> }

\* newline, '!', 'A', 'a', 'z', '~', DEL, a byte above 127
Bytes == {10, 33, 65, 97, 122, 126, 127, 200}

SeqsUpTo(S, n) == UNION { [1..m -> S] : m \in 0..n }

Record(nm, sq) == [name |-> nm, seq |-> sq]

FmtInputs == SeqsUpTo({ Record(nm, <<97, 10>>) : nm \in Names }, FmtMaxRecords)
OrdInputs == SeqsUpTo({ Record(nm, sq) : nm \in OrdNames, sq \in OrdSeqs }, OrdMaxRecords)
NormInputs == { <<Record(<<"c", "h", "r", "1">>, sq)>> : sq \in SeqsUpTo(Bytes, MaxSeqLen) }

\* every combination of options and the three ways of naming the input
AllArgv ==
    { av \in [A : BOOLEAN, a : {NULL, AssemblyOpt}, s : {NULL, SpeciesOpt},
              u : {NULL, UriOpt}, o : {NULL, OutName}, H : BOOLEAN,
              bad : BOOLEAN, pos : {NULL, FileName}, tty : BOOLEAN] :
        /\ av.pos # NULL => ~av.tty
        /\ av.bad => av.pos = NULL /\ ~av.tty }

\* the header option only, input named or standard input
OrdArgv ==
    { av \in AllArgv : /\ ~av.A /\ av.a = NULL /\ av.s = NULL /\ av.u = NULL
                       /\ av.o = NULL /\ ~av.bad /\ ~av.tty }

\* no options, a named input
NormArgv == { av \in OrdArgv : ~av.H /\ av.pos # NULL }

\* after calloc and args->header = 1 (dict.c:139-140)
ArgsInit ==
    [output_fname |-> NULL, assembly |-> NULL, species |-> NULL, uri |-> NULL,
     alias |-> FALSE, header |-> TRUE]

KseqNull == [name |-> <<>>, s |-> <<>>, l |-> 0]

Init ==
    /\ \/ argv \in AllArgv /\ input \in FmtInputs
       \/ argv \in OrdArgv /\ input \in OrdInputs
       \/ argv \in NormArgv /\ input \in NormInputs
    /\ pc = "main"
    /\ args = ArgsInit
    /\ argsAlloc = TRUE
    /\ fn = NULL
    /\ fp = "null"
    /\ out = "null"
    /\ outOpen = FALSE
    /\ stdoutClosed = FALSE
    /\ md5 = Md5Null
    /\ seq = KseqNull
    /\ l = 0
    /\ nread = 0
    /\ i = 0
    /\ k = 0
    /\ outbuf = <<>>
    /\ errbuf = <<>>
    /\ status = -1


-----------------------------------------------------------------------------
(* dict_main *)

\* dict_usage
DictUsage ==
    /\ errbuf' = Append(errbuf, "usage")
    /\ status' = 1
    /\ pc' = "returned"

\* -h, -? or an unknown option: return dict_usage()
DictMainUsageOption ==
    /\ pc = "main"
    /\ argv.bad
    /\ DictUsage
    /\ UNCHANGED <<argv, input, args, argsAlloc, fn, fp, out, outOpen, stdoutClosed,
                   md5, seq, l, nread, i, k, outbuf>>

\* no positional argument and standard input is a terminal
DictMainUsageTty ==
    /\ pc = "main"
    /\ ~argv.bad
    /\ argv.pos = NULL
    /\ argv.tty
    /\ DictUsage
    /\ UNCHANGED <<argv, input, args, argsAlloc, fn, fp, out, outOpen, stdoutClosed,
                   md5, seq, l, nread, i, k, outbuf>>

\* the options are stored and write_dict(fname, args) is entered
DictMainCall ==
    /\ pc = "main"
    /\ ~argv.bad
    /\ argv.pos # NULL \/ ~argv.tty
    /\ args' = [output_fname |-> argv.o, assembly |-> argv.a, species |-> argv.s,
                uri |-> argv.u, alias |-> argv.A, header |-> ~argv.H]
    /\ fn' = IF argv.pos = NULL THEN S_dash ELSE argv.pos
    /\ pc' = "open_in"
    /\ UNCHANGED <<argv, input, argsAlloc, fp, out, outOpen, stdoutClosed,
                   md5, seq, l, nread, i, k, outbuf, errbuf, status>>

\* write_dict has returned: free(args); return 0
DictMainReturn ==
    /\ pc = "written"
    /\ argsAlloc' = FALSE
    /\ status' = 0
    /\ pc' = "returned"
    /\ UNCHANGED <<argv, input, args, fn, fp, out, outOpen, stdoutClosed,
                   md5, seq, l, nread, i, k, outbuf, errbuf>>

-----------------------------------------------------------------------------
(* write_dict *)

\* samtools_exit(1): control leaves write_dict and dict_main at once
SamtoolsExit ==
    /\ status' = 1
    /\ pc' = "exited"

\* gzopen / gzdopen succeeds
OpenInputOk ==
    /\ pc = "open_in"
    /\ fp' = "open"
    /\ pc' = "open_out"
    /\ UNCHANGED <<argv, input, args, argsAlloc, fn, out, outOpen, stdoutClosed,
                   md5, seq, l, nread, i, k, outbuf, errbuf, status>>

\* fp == 0
OpenInputFail ==
    /\ pc = "open_in"
    /\ errbuf' = Append(errbuf, "No such file or directory")
    /\ SamtoolsExit
    /\ UNCHANGED <<argv, input, args, argsAlloc, fn, fp, out, outOpen, stdoutClosed,
                   md5, seq, l, nread, i, k, outbuf>>

\* no output_fname: out = samtools_stdout
OpenOutputDefault ==
    /\ pc = "open_out"
    /\ args.output_fname = NULL
    /\ out' = "stdout"
    /\ pc' = "md5_init"
    /\ UNCHANGED <<argv, input, args, argsAlloc, fn, fp, outOpen, stdoutClosed,
                   md5, seq, l, nread, i, k, outbuf, errbuf, status>>

\* fopen(args->output_fname, "w") succeeds
OpenOutputOk ==
    /\ pc = "open_out"
    /\ args.output_fname # NULL
    /\ out' = "file"
    /\ outOpen' = TRUE
    /\ pc' = "md5_init"
    /\ UNCHANGED <<argv, input, args, argsAlloc, fn, fp, stdoutClosed,
                   md5, seq, l, nread, i, k, outbuf, errbuf, status>>

\* out == NULL
OpenOutputFail ==
    /\ pc = "open_out"
    /\ args.output_fname # NULL
    /\ errbuf' = Append(errbuf, "Cannot open file for writing")
    /\ SamtoolsExit
    /\ UNCHANGED <<argv, input, args, argsAlloc, fn, fp, out, outOpen, stdoutClosed,
                   md5, seq, l, nread, i, k, outbuf>>

\* mutant: the header flag is ignored
PutHeaderAlways(buf) == Append(buf, HeaderLine)

\* if (args->header) fprintf(out, "@HD...\n")
PutHeader(buf) == IF args.header THEN Append(buf, HeaderLine) ELSE buf

\* hts_md5_init succeeds; then seq = kseq_init(fp) and the header line
Md5InitOk ==
    /\ pc = "md5_init"
    /\ md5' = Md5Reset([Md5Null EXCEPT !.alloc = TRUE])
    /\ outbuf' = PutHeader(outbuf)
    /\ pc' = "read"
    /\ UNCHANGED <<argv, input, args, argsAlloc, fn, fp, out, outOpen, stdoutClosed,
                   seq, l, nread, i, k, errbuf, status>>

\* hts_md5_init returns NULL
Md5InitFail ==
    /\ pc = "md5_init"
    /\ SamtoolsExit
    /\ UNCHANGED <<argv, input, args, argsAlloc, fn, fp, out, outOpen, stdoutClosed,
                   md5, seq, l, nread, i, k, outbuf, errbuf>>

\* kseq_read returns the next record; the for loop starts with i = k = 0
KseqReadRecord ==
    /\ pc = "read"
    /\ nread < Len(input)
    /\ seq' = [name |-> input[nread + 1].name,
               s |-> input[nread + 1].seq,
               l |-> Len(input[nread + 1].seq)]
    /\ l' = Len(input[nread + 1].seq)
    /\ nread' = nread + 1
    /\ i' = 0
    /\ k' = 0
    /\ pc' = "scan"
    /\ UNCHANGED <<argv, input, args, argsAlloc, fn, fp, out, outOpen, stdoutClosed,
                   md5, outbuf, errbuf, status>>

\* kseq_read returns -1 at the end of the stream
KseqReadEof ==
    /\ pc = "read"
    /\ nread = Len(input)
    /\ l' = -1
    /\ pc' = "cleanup"
    /\ UNCHANGED <<argv, input, args, argsAlloc, fn, fp, out, outOpen, stdoutClosed,
                   md5, seq, nread, i, k, outbuf, errbuf, status>>

\* kseq_read returns -3: the stream could not be read
KseqReadError ==
    /\ pc = "read"
    /\ l' = -3
    /\ pc' = "cleanup"
    /\ UNCHANGED <<argv, input, args, argsAlloc, fn, fp, out, outOpen, stdoutClosed,
                   md5, seq, nread, i, k, outbuf, errbuf, status>>

\* one iteration of the compaction loop
ScanStep ==
    /\ pc = "scan"
    /\ i < seq.l
    /\ IF Retained(seq.s[i + 1])
       THEN /\ seq' = [seq EXCEPT !.s[k + 1] = ToUpper(seq.s[i + 1])]
            /\ k' = k + 1
       ELSE UNCHANGED <<seq, k>>
    /\ i' = i + 1
    /\ UNCHANGED <<argv, input, pc, args, argsAlloc, fn, fp, out, outOpen, stdoutClosed,
                   md5, l, nread, outbuf, errbuf, status>>

\* mutant: the mitochondrial test looks at the record name, not at the
\* name past its "chr" prefix
AliasFieldWholeName(nm) ==
    LET name == IF StartsWithChr(nm) THEN SubSeq(nm, 4, Len(nm)) ELSE nm
        first == IF StartsWithChr(nm)
                 THEN <<TAB>> \o S_AN \o name
                 ELSE <<TAB>> \o S_AN \o S_chr \o name
    IN  first \o (IF StrEq(nm, S_M) THEN S_comma_chrMT_MT
                  ELSE IF StrEq(nm, S_MT) THEN S_comma_chrM_M
                  ELSE <<>>)

\* the AN field
AliasField(nm) ==
    LET name == IF StartsWithChr(nm) THEN SubSeq(nm, 4, Len(nm)) ELSE nm
        first == IF StartsWithChr(nm)
                 THEN <<TAB>> \o S_AN \o name
                 ELSE <<TAB>> \o S_AN \o S_chr \o name
    IN  first \o (IF StrEq(name, S_M) THEN S_comma_chrMT_MT
                  ELSE IF StrEq(name, S_MT) THEN S_comma_chrM_M
                  ELSE <<>>)

\* the UR field; real_path is what realpath returned
UriField(real_path) ==
    IF args.uri # NULL THEN <<TAB>> \o S_UR \o args.uri
    ELSE IF ~StrEq(fn, S_dash)
         THEN <<TAB>> \o S_UR \o S_file \o (IF real_path = NULL THEN S_null ELSE real_path)
         ELSE <<>>

\* mutant: species is printed before assembly
RecordLineSpeciesFirst(hex, real_path) ==
    S_SQ \o <<TAB>> \o S_SN \o seq.name \o <<TAB>> \o S_LN \o FmtInt(k)
         \o <<TAB>> \o S_M5 \o hex
         \o (IF args.alias THEN AliasField(seq.name) ELSE <<>>)
         \o UriField(real_path)
         \o (IF args.species # NULL THEN <<TAB>> \o S_SP \o args.species ELSE <<>>)
         \o (IF args.assembly # NULL THEN <<TAB>> \o S_AS \o args.assembly ELSE <<>>)
         \o <<NL>>

\* the record line
RecordLine(hex, real_path) ==
    S_SQ \o <<TAB>> \o S_SN \o seq.name \o <<TAB>> \o S_LN \o FmtInt(k)
         \o <<TAB>> \o S_M5 \o hex
         \o (IF args.alias THEN AliasField(seq.name) ELSE <<>>)
         \o UriField(real_path)
         \o (IF args.assembly # NULL THEN <<TAB>> \o S_AS \o args.assembly ELSE <<>>)
         \o (IF args.species # NULL THEN <<TAB>> \o S_SP \o args.species ELSE <<>>)
         \o <<NL>>

\* mutant: a record without retained bytes gets no line
PutRecordSkipEmpty(buf, line) == IF k = 0 THEN buf ELSE Append(buf, line)

\* the fprintf calls of one pass of the while loop, on out
PutRecord(buf, line) == Append(buf, line)

\* mutant: the context is not reset before the record is fed to it
Md5OfRecordNoReset == Md5Update(md5, seq.s, k)

\* the context the digest of the record is taken from
Md5OfRecord == Md5Update(Md5Reset(md5), seq.s, k)

\* the loop is over: digest the record and print its line.  realpath fails
\* (NULL) or resolves fn; a NULL %s argument is printed as "(null)" by the
\* C libraries the package builds on.
EmitLine ==
    /\ pc = "scan"
    /\ i >= seq.l
    /\ \E real_path \in {NULL, AbsPath(fn)} :
          outbuf' = PutRecord(outbuf, RecordLine(Md5Hex(Md5Digest(Md5OfRecord)), real_path))
    /\ md5' = Md5Wiped(Md5OfRecord)
    /\ pc' = "read"
    /\ UNCHANGED <<argv, input, args, argsAlloc, fn, fp, out, outOpen, stdoutClosed,
                   seq, l, nread, i, k, errbuf, status>>

\* kseq_destroy, hts_md5_destroy, fclose(out) if the writer opened it, gzclose
Cleanup ==
    /\ pc = "cleanup"
    /\ seq' = KseqNull
    /\ md5' = Md5Null
    /\ IF args.output_fname # NULL
       THEN /\ outOpen' = FALSE
            /\ stdoutClosed' = (stdoutClosed \/ out = "stdout")
       ELSE UNCHANGED <<outOpen, stdoutClosed>>
    /\ fp' = "closed"
    /\ pc' = "written"
    /\ UNCHANGED <<argv, input, args, argsAlloc, fn, out, l, nread, i, k,
                   outbuf, errbuf, status>>

Next ==
    \/ DictMainUsageOption
    \/ DictMainUsageTty
    \/ DictMainCall
    \/ DictMainReturn
    \/ OpenInputOk
    \/ OpenInputFail
    \/ OpenOutputDefault
    \/ OpenOutputOk
    \/ OpenOutputFail
    \/ Md5InitOk
    \/ Md5InitFail
    \/ KseqReadRecord
    \/ KseqReadEof
    \/ KseqReadError
    \/ ScanStep
    \/ EmitLine
    \/ Cleanup

Spec == Init /\ [][Next]_vars


-----------------------------------------------------------------------------
(* Reading the output back: lines, tab-separated fields, tags and values *)

\* the pieces of s[1..n] between the positions in tabs, the m-th of them
\* running from after the (m-1)-th position to before the m-th
SplitAt(s, n, tabs) ==
    LET nth(m) == CHOOSE p \in tabs : Cardinality({ q \in tabs : q < p }) = m - 1
        cnt == Cardinality(tabs)
    IN  [m \in 1..(cnt + 1) |->
            SubSeq(s, IF m = 1 THEN 1 ELSE nth(m - 1) + 1,
                      IF m = cnt + 1 THEN n ELSE nth(m) - 1)]

\* the tab-separated fields of a line, its newline dropped
Fields(ln) == SplitAt(ln, Len(ln) - 1, { p \in 1..(Len(ln) - 1) : ln[p] = TAB })

Tag(f) == SubSeq(f, 1, 3)
Val(f) == SubSeq(f, 4, Len(f))

StartsHD(ln) == Len(ln) >= 3 /\ SubSeq(ln, 1, 3) = S_HD
StartsSQ(ln) == Len(ln) >= 3 /\ SubSeq(ln, 1, 3) = S_SQ
NotHD(ln) == ~StartsHD(ln)

\* the record lines of the output, in output order
SqLines == SelectSeq(outbuf, NotHD)

IsPrefix(a, b) == Len(a) <= Len(b) /\ SubSeq(b, 1, Len(a)) = a

IsDigits(cs) == cs # <<>> /\ \A m \in 1..Len(cs) : \E d \in 1..10 : DigitChar[d] = cs[m]
IsHexDigits(cs) == cs # <<>> /\ \A m \in 1..Len(cs) : \E d \in 1..16 : HexChar[d] = cs[m]

RECURSIVE ParseDec(_)
ParseDec(cs) ==
    IF cs = <<>> THEN 0
    ELSE ParseDec(SubSeq(cs, 1, Len(cs) - 1)) * 10
         + ((CHOOSE d \in 1..10 : DigitChar[d] = cs[Len(cs)]) - 1)

\* the normalized sequence of the specification: the bytes in 0x21..0x7E,
\* in order, lowercase letters folded to uppercase
RECURSIVE Normalized(_)
Normalized(raw) ==
    IF raw = <<>> THEN <<>>
    ELSE (IF Head(raw) \in 33..126
          THEN <<IF Head(raw) \in 97..122 THEN Head(raw) - 32 ELSE Head(raw)>>
          ELSE <<>>) \o Normalized(Tail(raw))

\* write_dict is past the header step and has not been aborted
Writing ==
    \/ pc \in {"read", "scan", "cleanup", "written"}
    \/ pc = "returned" /\ status = 0

\* the run is over
Ended == pc \in {"returned", "exited"}

\* kseq_read reported the end of the stream and write_dict left its loop
AtEof == l = -1 /\ pc \in {"cleanup", "written", "returned"}

HeaderCount == IF args.header THEN 1 ELSE 0

-----------------------------------------------------------------------------
(* The claims *)

\* the optional tags that apply, in the order AN, UR, AS, SP
OptionalTags ==
    (IF args.alias THEN <<S_AN>> ELSE <<>>)
    \o (IF args.uri # NULL \/ fn # S_dash THEN <<S_UR>> ELSE <<>>)
    \o (IF args.assembly # NULL THEN <<S_AS>> ELSE <<>>)
    \o (IF args.species # NULL THEN <<S_SP>> ELSE <<>>)

\* C1: every record line is @SQ, SN:<name>, LN:<length>, M5:<hex> in that
\* order, then the optional fields in the order AN, UR, AS, SP, each present
\* exactly when it applies (AN iff alias; UR iff a URI is given or the input
\* is not standard input; AS iff an assembly is given; SP iff a species is
\* given), with the assembly and species values verbatim.
C1_LineFormat ==
    \A j \in 1..Len(SqLines) :
        LET ln == SqLines[j]
            f == Fields(ln)
        IN  /\ ln[Len(ln)] = NL
            /\ Len(f) = 4 + Len(OptionalTags)
            /\ f[1] = S_SQ
            /\ f[2] = S_SN \o input[j].name
            /\ Tag(f[3]) = S_LN /\ IsDigits(Val(f[3]))
            /\ Tag(f[4]) = S_M5 /\ IsHexDigits(Val(f[4]))
            /\ \A m \in 1..Len(OptionalTags) : Tag(f[4 + m]) = OptionalTags[m]
            /\ args.assembly # NULL => \E m \in 5..Len(f) : f[m] = S_AS \o args.assembly
            /\ args.species # NULL => \E m \in 5..Len(f) : f[m] = S_SP \o args.species

\* a record line that carries all four optional fields
C1_Witness ==
    /\ Len(SqLines) >= 1
    /\ Len(Fields(SqLines[1])) = 8
    /\ args.assembly # NULL
    /\ args.species # NULL

ClaimHasChr(nm) == Len(nm) >= 3 /\ nm[1] = "c" /\ nm[2] = "h" /\ nm[3] = "r"
ClaimBare(nm) == IF ClaimHasChr(nm) THEN SubSeq(nm, 4, Len(nm)) ELSE nm

\* C2: with the alias flag set the AN field begins with the name without its
\* leading "chr" if it has one, else with "chr" and the name; it goes on with
\* ",chrMT,MT" exactly when the name without a leading "chr" is "M", with
\* ",chrM,M" exactly when it is "MT", and with nothing otherwise (chrM gives
\* M,chrMT,MT; MT gives chrMT,chrM,M; 1 gives chr1).  With the flag unset no
\* AN field is written.
C2_Alias ==
    \A j \in 1..Len(SqLines) :
        LET nm == input[j].name
            f == Fields(SqLines[j])
            bare == ClaimBare(nm)
            base == IF ClaimHasChr(nm) THEN bare ELSE <<"c", "h", "r">> \o nm
        IN  /\ ~args.alias => \A m \in 1..Len(f) : Tag(f[m]) # S_AN
            /\ args.alias =>
                 /\ Len(f) >= 5
                 /\ Tag(f[5]) = S_AN
                 /\ \A m \in 1..Len(f) : m # 5 => Tag(f[m]) # S_AN
                 /\ IsPrefix(base, Val(f[5]))
                 /\ LET ext == SubSeq(Val(f[5]), Len(base) + 1, Len(Val(f[5])))
                    IN  /\ (ext = <<",", "c", "h", "r", "M", "T", ",", "M", "T">>)
                             <=> (bare = <<"M">>)
                        /\ (ext = <<",", "c", "h", "r", "M", ",", "M">>)
                             <=> (bare = <<"M", "T">>)
                        /\ bare \notin {<<"M">>, <<"M", "T">>} => ext = <<>>
                 /\ nm = <<"c", "h", "r", "M">>
                      => Val(f[5]) = <<"M", ",", "c", "h", "r", "M", "T", ",", "M", "T">>
                 /\ nm = <<"M", "T">>
                      => Val(f[5]) = <<"c", "h", "r", "M", "T", ",", "c", "h", "r", "M", ",", "M">>
                 /\ nm = <<"1">> => Val(f[5]) = <<"c", "h", "r", "1">>

\* the alias of chrM has been written
C2_Witness ==
    /\ args.alias
    /\ Len(SqLines) >= 1
    /\ input[1].name = <<"c", "h", "r", "M">>
    /\ Val(Fields(SqLines[1])[5]) = <<"M", ",", "c", "h", "r", "M", "T", ",", "M", "T">>

\* C3: an explicit URI is the UR field verbatim; without one the UR field of
\* a named input is file:// and an absolute path that resolves to the input;
\* without one and on standard input there is no UR field.
C3_UriPrecedence ==
    \A j \in 1..Len(SqLines) :
        LET f == Fields(SqLines[j])
            ur == { m \in 1..Len(f) : Tag(f[m]) = S_UR }
        IN  /\ args.uri # NULL =>
                 Cardinality(ur) = 1 /\ \A m \in ur : Val(f[m]) = args.uri
            /\ args.uri = NULL /\ fn # S_dash =>
                 /\ Cardinality(ur) = 1
                 /\ \A m \in ur : /\ IsPrefix(S_file \o <<"/">>, Val(f[m]))
                                  /\ Val(f[m]) = S_file \o AbsPath(fn)
            /\ args.uri = NULL /\ fn = S_dash => ur = {}

\* C4: with the header enabled exactly one @HD line is written and it comes
\* before every @SQ line, records or not (an empty input gives the header
\* alone); with it disabled no @HD line is written and the output has one
\* line per record.
C4_Header ==
    Writing =>
        /\ args.header =>
             /\ Len(outbuf) >= 1
             /\ outbuf[1] = HeaderLine
             /\ \A j \in 2..Len(outbuf) : StartsSQ(outbuf[j]) /\ ~StartsHD(outbuf[j])
        /\ ~args.header =>
             \A j \in 1..Len(outbuf) : StartsSQ(outbuf[j]) /\ ~StartsHD(outbuf[j])
        /\ pc # "scan" => Len(outbuf) = HeaderCount + nread
        /\ AtEof => Len(outbuf) = HeaderCount + Len(input)
        /\ AtEof /\ input = <<>> /\ args.header => outbuf = <<HeaderLine>>

\* an empty input was run to its end with the header enabled
C4_Witness ==
    /\ pc = "returned"
    /\ status = 0
    /\ l = -1
    /\ args.header
    /\ input = <<>>
    /\ outbuf = <<HeaderLine>>

\* C5: the LN and M5 fields of a record are a function of its normalized
\* sequence alone: records of one input that normalize to the same bytes
\* carry the same LN and the same M5, and each record's fields are those of
\* a fresh context fed its normalized bytes, whatever was read before it.
C5_DigestPerRecord ==
    \* per record line: the normalized bytes of its record, its LN and M5 fields
    LET recs == { <<Normalized(input[j].seq), Fields(SqLines[j])[3], Fields(SqLines[j])[4]>> :
                     j \in 1..Len(SqLines) }
    IN  /\ \A x, y \in recs : x[1] = y[1] => x[2] = y[2] /\ x[3] = y[3]
        /\ \A x \in recs :
              /\ ParseDec(Val(x[2])) = Len(x[1])
              /\ Val(x[3]) = Md5Hex([iv |-> "std", msg |-> x[1]])

\* two records with different raw bytes and the same normalized bytes, both written
C5_Witness ==
    /\ Len(SqLines) = 2
    /\ input[1].seq # input[2].seq
    /\ input[1].name # input[2].name
    /\ Normalized(input[1].seq) = Normalized(input[2].seq)
    /\ Normalized(input[1].seq) # <<>>
    /\ Fields(SqLines[1])[4] = Fields(SqLines[2])[4]

\* C6: an input that cannot be opened or cannot be read, also after some
\* records were read, aborts the run and leaves no output at all.
C6_NoPartialOutput ==
    (pc = "exited" /\ fp = "null") \/ l < -1 =>
        /\ outbuf = <<>>
        /\ Ended => status # 0

\* C7: every failure ends with a non-zero status and a message on the error
\* stream.
C7_FailuresReported ==
    Ended /\ (pc = "exited" \/ l < -1 \/ argv.bad \/ (argv.pos = NULL /\ argv.tty)) =>
        /\ status # 0
        /\ errbuf # <<>>

\* C8: at the end of every run the input stream, the output file the writer
\* opened and the options structure have been released, and the default
\* output stream has not been closed.
C8_Released ==
    Ended =>
        /\ fp # "open"
        /\ ~outOpen
        /\ ~argsAlloc
        /\ ~stdoutClosed

\* C9: the output has one @SQ line per record read, the i-th carrying the
\* i-th record's name; a record's line is written before the next record is
\* read; at the end of an input of n records there are n @SQ lines.
C9_Order ==
    Writing =>
        /\ nread <= Len(input)
        /\ Len(SqLines) = IF pc = "scan" THEN nread - 1 ELSE nread
        /\ \A j \in 1..Len(SqLines) : Fields(SqLines[j])[2] = S_SN \o input[j].name
        /\ AtEof => Len(SqLines) = Len(input)

\* two records with different names were written and the input is at its end
C9_Witness ==
    /\ pc = "returned"
    /\ status = 0
    /\ l = -1
    /\ Len(input) = 2
    /\ input[1].name # input[2].name
    /\ Len(SqLines) = 2

RetainedCount(raw, n) == Cardinality({ m \in 1..n : raw[m] \in 33..126 })

\* C10: in the compaction loop k <= i always; positions 0..k-1 hold the bytes
\* of 0x21..0x7E among the first i raw bytes, in order and in uppercase; the
\* bytes not yet read are untouched; k is the count of such bytes and at most
\* the raw length; the LN printed is that count.
C10_Compaction ==
    /\ pc = "scan" =>
          LET raw == input[nread].seq
          IN  /\ k <= i
              /\ i <= seq.l
              /\ seq.l = Len(raw)
              /\ Len(seq.s) = Len(raw)
              /\ SubSeq(seq.s, 1, k) = Normalized(SubSeq(raw, 1, i))
              /\ \A m \in (i + 1)..Len(raw) : seq.s[m] = raw[m]
              /\ k = RetainedCount(raw, i)
              /\ k <= Len(raw)
    /\ \A j \in 1..Len(SqLines) :
          /\ ParseDec(Val(Fields(SqLines[j])[3])) = RetainedCount(input[j].seq, Len(input[j].seq))
          /\ ParseDec(Val(Fields(SqLines[j])[3])) <= Len(input[j].seq)

\* a loop that is over, has dropped a byte and has folded a byte
C10_Witness ==
    /\ pc = "scan"
    /\ i = seq.l
    /\ 0 < k
    /\ k < i
    /\ SubSeq(seq.s, 1, k) # SubSeq(input[nread].seq, 1, k)
    /\ \E m \in 1..Len(input[nread].seq) : input[nread].seq[m] \in 97..122

=============================================================================
